---- MODULE Spec2Model ----
(***************************************************************************)
(* A model of setup.py, the packaging manifest of panda_math.              *)
(*                                                                         *)
(* The script is one import statement and one call, setup(...).  Python    *)
(* evaluates the keyword arguments of a call left to right and only then   *)
(* makes the call, so a run is the sequence                                *)
(*   import, name, version, packages, install_requires, author,            *)
(*   author_email, description, open, read, content_type, url,             *)
(*   classifiers, python_requires, call, commands.                         *)
(* The working directory, the command line and the installation of         *)
(* setuptools are the inputs of a run; Init draws them from bounded sets.  *)
(*                                                                         *)
(* Representation: a text is the sequence of its Unicode code points, a    *)
(* file content the sequence of its bytes, a requirement or version        *)
(* specifier the sequence of its characters, a classifier the sequence of  *)
(* the segments its " :: " separators delimit, a package the sequence of   *)
(* the path segments its dots delimit.                                     *)
(***************************************************************************)
EXTENDS Integers, Sequences, FiniteSets, TLC

VARIABLES pc, kwargs, fs, argv, installed, handles, registered, error, log

vars == <<pc, kwargs, fs, argv, installed, handles, registered, error, log>>

(* ------------------------------ bounds -------------------------------- *)

\* The longest README.md, in bytes, the runs are checked for.
MaxReadmeLen == 3

(* --------------------------- the environment -------------------------- *)

README == "README.md"

\* The bytes a README.md is made of: "A", CR, LF, and the two bytes C3 A9
\* that encode U+00E9; A9 alone or C3 last is not UTF-8.
ReadmeBytes == {65, 13, 10, 195, 169}

ByteSeqs(n) == UNION {[1..k -> ReadmeBytes] : k \in 0..n}

NoFile == [kind |-> "absent"]
Denied == [kind |-> "denied"]
File(b) == [kind |-> "file", bytes |-> b]

ReadmeStates == {NoFile, Denied} \cup {File(b) : b \in ByteSeqs(MaxReadmeLen)}

\* The directories of the working directory that may hold an __init__.py.
Dirs == {<<"panda_math">>, <<"panda_math", "core">>}

\* The command lines setup.py is run with: none, or the sdist command.
Argvs == {<<>>, <<"sdist">>}

NoError == [type |-> "none"]
Raised(t, s, l) == [type |-> t, site |-> s, line |-> l]

(* --------------------------- library code ----------------------------- *)

Fail == [ok |-> FALSE, text |-> <<>>]
Cont(x) == x >= 128 /\ x <= 191
Push(c, r) == IF r.ok THEN [ok |-> TRUE, text |-> <<c>> \o r.text] ELSE Fail

\* The strict UTF-8 decoder: b from byte i on, as code points, or Fail.
RECURSIVE Utf8From(_, _)
Utf8From(b, i) ==
  IF i > Len(b) THEN [ok |-> TRUE, text |-> <<>>]
  ELSE LET c == b[i]
           has(k) == i + k <= Len(b) /\ \A j \in 1..k : Cont(b[i + j])
       IN IF c < 128 THEN Push(c, Utf8From(b, i + 1))
          ELSE IF c >= 194 /\ c <= 223
            THEN IF has(1)
                   THEN Push((c - 192) * 64 + (b[i + 1] - 128), Utf8From(b, i + 2))
                   ELSE Fail
          ELSE IF c >= 224 /\ c <= 239
            THEN IF has(2) /\ (c = 224 => b[i + 1] >= 160)
                           /\ (c = 237 => b[i + 1] <= 159)
                   THEN Push((c - 224) * 4096 + (b[i + 1] - 128) * 64
                               + (b[i + 2] - 128), Utf8From(b, i + 3))
                   ELSE Fail
          ELSE IF c >= 240 /\ c <= 244
            THEN IF has(3) /\ (c = 240 => b[i + 1] >= 144)
                           /\ (c = 244 => b[i + 1] <= 143)
                   THEN Push((c - 240) * 262144 + (b[i + 1] - 128) * 4096
                               + (b[i + 2] - 128) * 64 + (b[i + 3] - 128),
                             Utf8From(b, i + 4))
                   ELSE Fail
          ELSE Fail

Utf8Decode(b) == Utf8From(b, 1)

\* Text mode with newline=None: "\r\n" and a lone "\r" are read as "\n".
RECURSIVE NewlinesFrom(_, _)
NewlinesFrom(t, i) ==
  IF i > Len(t) THEN <<>>
  ELSE IF t[i] = 13
    THEN <<10>> \o NewlinesFrom(t, IF i < Len(t) /\ t[i + 1] = 10 THEN i + 2 ELSE i + 1)
    ELSE <<t[i]>> \o NewlinesFrom(t, i + 1)

UniversalNewlines(t) == NewlinesFrom(t, 1)

\* find_packages(): the directories that hold an __init__.py and whose
\* parents all do.
FindPackages(inits) ==
  {d \in inits : \A k \in 1..Len(d) : SubSeq(d, 1, k) \in inits}

\* A requirement such as "numpy>=1.0" names a project and may constrain its
\* version: the name is the longest prefix of name characters, the rest the
\* specifier.
NameChars ==
  {"a", "b", "c", "d", "e", "f", "g", "h", "i", "j", "k", "l", "m", "n", "o", "p",
   "q", "r", "s", "t", "u", "v", "w", "x", "y", "z", "0", "1", "2", "3", "4", "5",
   "6", "7", "8", "9", "_", "-", "."}

PrefixLen(s, chars) ==
  CHOOSE n \in 0..Len(s) :
    /\ \A i \in 1..n : s[i] \in chars
    /\ n < Len(s) => s[n + 1] \notin chars

ReqName(r) == SubSeq(r, 1, PrefixLen(r, NameChars))
ReqSpecifier(r) == SubSeq(r, PrefixLen(r, NameChars) + 1, Len(r))

\* A version specifier such as ">=3.6": a comparison and a release, the
\* release being the numbers its dots separate.
Digits == <<"0", "1", "2", "3", "4", "5", "6", "7", "8", "9">>
DigitValue(c) == (CHOOSE i \in 1..Len(Digits) : Digits[i] = c) - 1

RECURSIVE Release(_, _, _)
Release(s, i, acc) ==
  IF i > Len(s) THEN <<acc>>
  ELSE IF s[i] = "." THEN <<acc>> \o Release(s, i + 1, 0)
  ELSE Release(s, i + 1, acc * 10 + DigitValue(s[i]))

CompareChars == {"<", ">", "=", "!", "~"}
SpecifierOp(s) == SubSeq(s, 1, PrefixLen(s, CompareChars))
SpecifierRelease(s) == Release(s, PrefixLen(s, CompareChars) + 1, 0)

(* ------------------------------ setup.py ------------------------------ *)

Init ==
  /\ pc = "import"
  /\ kwargs = <<>>
  /\ fs \in [readme : ReadmeStates, inits : SUBSET Dirs, built : {{}}]
  /\ argv \in Argvs
  /\ installed \in BOOLEAN
  /\ handles = {}
  /\ registered = <<>>
  /\ error = NoError
  /\ log = {}

Did(actor, op, target) == [actor |-> actor, op |-> op, target |-> target]

\* Evaluating the keyword argument key=value, a literal: it joins the arguments.
Bind(key, value, next) ==
  /\ kwargs' = Append(kwargs, [key |-> key, value |-> value])
  /\ pc' = next
  /\ UNCHANGED <<fs, argv, installed, handles, registered, error, log>>

\* The step that raises e and ends the run.
Raise(e) ==
  /\ error' = e
  /\ pc' = "error"

Import ==
  /\ pc = "import"
  /\ IF installed
       THEN pc' = "name" /\ error' = error
       ELSE Raise(Raised("ModuleNotFoundError", "import", 1))
  /\ log' = log \cup {Did("python", "import", "setuptools")}
  /\ UNCHANGED <<kwargs, fs, argv, installed, handles, registered>>

EvalName ==
  /\ pc = "name"
  /\ Bind("name", "panda_math", "version")

\* A release that forgot to raise the version: version="0.1.0".
EvalVersion_Stale ==
  /\ pc = "version"
  /\ Bind("version", "0.1.0", "packages")


EvalVersion ==
  /\ pc = "version"
  /\ Bind("version", "0.1.1", "packages")

\* A fixed list in the place of the discovery: packages=["panda_math"].
EvalPackages_Fixed ==
  /\ pc = "packages"
  /\ kwargs' = Append(kwargs, [key |-> "packages", value |-> {<<"panda_math">>}])
  /\ log' = log
  /\ pc' = "install_requires"
  /\ UNCHANGED <<fs, argv, installed, handles, registered, error>>


EvalPackages ==
  /\ pc = "packages"
  /\ kwargs' = Append(kwargs, [key |-> "packages", value |-> FindPackages(fs.inits)])
  /\ log' = log \cup {Did("setuptools", "listdir", ".")}
  /\ pc' = "install_requires"
  /\ UNCHANGED <<fs, argv, installed, handles, registered, error>>

\* A pinned dependency: install_requires=["numpy>=1"].
EvalInstallRequires_Pinned ==
  /\ pc = "install_requires"
  /\ Bind("install_requires", << <<"n", "u", "m", "p", "y", ">", "=", "1">> >>, "author")


EvalInstallRequires ==
  /\ pc = "install_requires"
  /\ Bind("install_requires", << <<"n", "u", "m", "p", "y">> >>, "author")

EvalAuthor ==
  /\ pc = "author"
  /\ Bind("author", "Colin Politi", "author_email")

EvalAuthorEmail ==
  /\ pc = "author_email"
  /\ Bind("author_email", "urboycolinthepanda@gmail.com", "description")

EvalDescription ==
  /\ pc = "description"
  /\ Bind("description",
       "A Vector, Matrix, and transformation utilities for 2D, 3D graphics, and game development.",
       "open")

\* The file opened for writing: open("README.md", "w", encoding="utf-8")
\* creates or truncates it.
OpenReadme_Write ==
  /\ pc = "open"
  /\ log' = log \cup {Did("script", "open_w", README)}
  /\ IF fs.readme.kind = "denied"
       THEN /\ Raise(Raised("PermissionError", "open", 11))
            /\ UNCHANGED <<fs, handles>>
       ELSE /\ fs' = [fs EXCEPT !.readme = File(<<>>)]
            /\ handles' = handles \cup {[id |-> Cardinality(handles) + 1, path |-> README,
                                         mode |-> "w", state |-> "open", held |-> TRUE]}
            /\ pc' = "read"
            /\ error' = error
  /\ UNCHANGED <<kwargs, argv, installed, registered>>

\* The file opened twice, once to test that it is there and once to read it.
OpenReadme_Twice ==
  /\ pc = "open"
  /\ log' = log \cup {Did("script", "open_r", README)}
  /\ CASE fs.readme.kind = "absent" ->
            Raise(Raised("FileNotFoundError", "open", 11)) /\ handles' = handles
       [] fs.readme.kind = "denied" ->
            Raise(Raised("PermissionError", "open", 11)) /\ handles' = handles
       [] OTHER ->
            /\ handles' = handles \cup
                 {[id |-> Cardinality(handles) + k, path |-> README,
                   mode |-> "r", state |-> "open", held |-> k = 2] : k \in 1..2}
            /\ pc' = "read"
            /\ error' = error
  /\ UNCHANGED <<kwargs, fs, argv, installed, registered>>

\* open("README.md", encoding="utf-8")
OpenReadme ==
  /\ pc = "open"
  /\ log' = log \cup {Did("script", "open_r", README)}
  /\ CASE fs.readme.kind = "absent" ->
            Raise(Raised("FileNotFoundError", "open", 11)) /\ handles' = handles
       [] fs.readme.kind = "denied" ->
            Raise(Raised("PermissionError", "open", 11)) /\ handles' = handles
       [] OTHER ->
            /\ handles' = handles \cup {[id |-> Cardinality(handles) + 1, path |-> README,
                                         mode |-> "r", state |-> "open", held |-> TRUE]}
            /\ pc' = "read"
            /\ error' = error
  /\ UNCHANGED <<kwargs, fs, argv, installed, registered>>

\* .readline() in the place of .read(): the text up to the first newline.
ReadAll_Line(b) ==
  LET d == Utf8Decode(b)
      t == UniversalNewlines(d.text)
      n == IF \E i \in 1..Len(t) : t[i] = 10
             THEN CHOOSE i \in 1..Len(t) : t[i] = 10 /\ \A j \in 1..(i - 1) : t[j] # 10
             ELSE Len(t)
  IN  IF d.ok THEN [ok |-> TRUE, text |-> SubSeq(t, 1, n)] ELSE Fail

\* The encoding left out on a system whose default is ASCII: a byte above 127
\* is an error.
ReadAll_Ascii(b) ==
  IF \A i \in 1..Len(b) : b[i] < 128
    THEN [ok |-> TRUE, text |-> UniversalNewlines(b)]
    ELSE Fail

\* What .read() returns for the bytes b of the file.
ReadAll(b) ==
  LET d == Utf8Decode(b)
  IN  IF d.ok THEN [ok |-> TRUE, text |-> UniversalNewlines(d.text)] ELSE Fail

\* A decoding error swallowed: the text read is then empty and the run goes on.
ReadReadme_Ignore ==
  /\ pc = "read"
  /\ log' = log \cup {Did("script", "read", README)}
  /\ handles' = {[h EXCEPT !.held = FALSE] : h \in handles}
  /\ kwargs' = Append(kwargs, [key |-> "long_description",
                               value |-> ReadAll(fs.readme.bytes).text])
  /\ pc' = "content_type"
  /\ UNCHANGED <<fs, argv, installed, registered, error>>

\* .read() on the file object, the value of long_description; the file object
\* is referenced by nothing once the method has returned or raised.
ReadReadme ==
  /\ pc = "read"
  /\ log' = log \cup {Did("script", "read", README)}
  /\ handles' = {[h EXCEPT !.held = FALSE] : h \in handles}
  /\ LET r == ReadAll(fs.readme.bytes)
     IN  IF r.ok
           THEN /\ kwargs' = Append(kwargs, [key |-> "long_description", value |-> r.text])
                /\ pc' = "content_type"
                /\ error' = error
           ELSE /\ Raise(Raised("UnicodeDecodeError", "read", 11))
                /\ kwargs' = kwargs
  /\ UNCHANGED <<fs, argv, installed, registered>>

\* The runtime finalises a file object nothing references, closing its handle:
\* at once under reference counting, at some collection or never otherwise.
Finalize ==
  /\ \E h \in handles :
       /\ h.state = "open" /\ ~h.held
       /\ handles' = (handles \ {h}) \cup {[h EXCEPT !.state = "closed"]}
       /\ log' = log \cup {Did("python", "close", h.path)}
  /\ UNCHANGED <<pc, kwargs, fs, argv, installed, registered, error>>

EvalContentType ==
  /\ pc = "content_type"
  /\ Bind("long_description_content_type", "text/markdown", "url")

EvalUrl ==
  /\ pc = "url"
  /\ Bind("url", "https://github.com/ColinThePanda/panda_math", "classifiers")

\* The licence classifier of another licence.
EvalClassifiers_Gpl ==
  /\ pc = "classifiers"
  /\ Bind("classifiers",
       << <<"Programming Language", "Python", "3">>,
          <<"License", "OSI Approved", "GNU General Public License v3 (GPLv3)">>,
          <<"Operating System", "OS Independent">> >>,
       "python_requires")


EvalClassifiers ==
  /\ pc = "classifiers"
  /\ Bind("classifiers",
       << <<"Programming Language", "Python", "3">>,
          <<"License", "OSI Approved", "MIT License">>,
          <<"Operating System", "OS Independent">> >>,
       "python_requires")

EvalPythonRequires ==
  /\ pc = "python_requires"
  /\ Bind("python_requires", <<">", "=", "3", ".", "6">>, "call")

\* setup(**kwargs) is entered: the distribution takes the metadata it is given.
CallSetup ==
  /\ pc = "call"
  /\ registered' = Append(registered, kwargs)
  /\ log' = log \cup {Did("setuptools", "read", "sys.argv")}
  /\ pc' = "commands"
  /\ UNCHANGED <<kwargs, fs, argv, installed, handles, error>>

\* The value the keyword arguments d give key.
Arg(d, key) == LET i == CHOOSE j \in 1..Len(d) : d[j].key = key IN d[i].value

Keys(d) == {d[i].key : i \in 1..Len(d)}

\* setup() runs the commands of the command line: without a command it exits
\* with an error, and sdist writes the source archive of the distribution.
RunCommands ==
  /\ pc = "commands"
  /\ IF argv = <<>>
       THEN /\ Raise(Raised("SystemExit", "setup", 3))
            /\ UNCHANGED <<fs, log>>
       ELSE /\ fs' = [fs EXCEPT !.built =
                        {[name |-> Arg(registered[1], "name"),
                          version |-> Arg(registered[1], "version")]}]
            /\ log' = log \cup {Did("setuptools", "write", "dist")}
            /\ pc' = "done"
            /\ error' = error
  /\ UNCHANGED <<kwargs, argv, installed, handles, registered>>

Next ==
  \/ Import
  \/ EvalName
  \/ EvalVersion
  \/ EvalPackages
  \/ EvalInstallRequires
  \/ EvalAuthor
  \/ EvalAuthorEmail
  \/ EvalDescription
  \/ OpenReadme
  \/ ReadReadme
  \/ Finalize
  \/ EvalContentType
  \/ EvalUrl
  \/ EvalClassifiers
  \/ EvalPythonRequires
  \/ CallSetup
  \/ RunCommands

Spec == Init /\ [][Next]_vars

(* ----------------------------- properties ----------------------------- *)

Count(d, key) == Cardinality({i \in 1..Len(d) : d[i].key = key})

Chars_numpy == <<"n", "u", "m", "p", "y">>

\* The script's own accesses, as against those of setuptools and the runtime.
OwnAccesses == {a \in log : a.actor = "script"}

ReadmeDecodes == fs.readme.kind = "file" /\ Utf8Decode(fs.readme.bytes).ok

\* C1: every distribution setup() registers is named "panda_math" and
\* versioned "0.1.1", each given once, and a run that ends well has registered
\* exactly one distribution and built the archive of that name and version.
C1_NameAndVersion ==
  /\ \A i \in 1..Len(registered) :
       /\ Count(registered[i], "name") = 1
       /\ Count(registered[i], "version") = 1
       /\ Arg(registered[i], "name") = "panda_math"
       /\ Arg(registered[i], "version") = "0.1.1"
  /\ pc = "done" =>
       /\ Len(registered) = 1
       /\ fs.built = {[name |-> "panda_math", version |-> "0.1.1"]}

C1_Witness == pc = "done" /\ Len(registered) = 1 /\ fs.built # {}

\* C2: the registered distribution has exactly one requirement, whose name is
\* numpy and whose specifier is empty, and one runtime bound, >= 3.6; it
\* declares requirements and runtime bounds under no other keyword.
C2_Requirements ==
  \A i \in 1..Len(registered) :
    LET d == registered[i]
        reqs == Arg(d, "install_requires")
        py == Arg(d, "python_requires")
    IN  /\ Count(d, "install_requires") = 1
        /\ Count(d, "python_requires") = 1
        /\ Len(reqs) = 1
        /\ ReqName(reqs[1]) = Chars_numpy
        /\ ReqSpecifier(reqs[1]) = <<>>
        /\ SpecifierOp(py) = <<">", "=">>
        /\ SpecifierRelease(py) = <<3, 6>>
        /\ Keys(d) \cap {"extras_require", "setup_requires", "tests_require"} = {}

C2_Witness ==
  /\ Len(registered) = 1
  /\ Len(Arg(registered[1], "install_requires")) = 1
  /\ pc = "commands"

\* C3: in the registered metadata every keyword is given once; name, version
\* and dependencies are given; exactly one classifier declares a licence and it
\* is the MIT licence, and no licence keyword says otherwise; the runtime floor
\* is a >= bound whose major version is the one the Python classifier names.
LicenseClassifiers(d) ==
  {c \in {Arg(d, "classifiers")[j] : j \in 1..Len(Arg(d, "classifiers"))} :
     c[1] = "License"}

PythonFamilies(d) ==
  {DigitValue(c[3]) :
     c \in {x \in {Arg(d, "classifiers")[j] : j \in 1..Len(Arg(d, "classifiers"))} :
              x[1] = "Programming Language" /\ x[2] = "Python" /\ Len(x) = 3}}

C3_ConsistentMetadata ==
  \A i \in 1..Len(registered) :
    LET d == registered[i]
    IN  /\ \A k \in Keys(d) : Count(d, k) = 1
        /\ {"name", "version", "install_requires", "classifiers"} \subseteq Keys(d)
        /\ "license" \notin Keys(d)
        /\ Cardinality(LicenseClassifiers(d)) = 1
        /\ \A c \in LicenseClassifiers(d) : c[Len(c)] = "MIT License"
        /\ SpecifierOp(Arg(d, "python_requires")) = <<">", "=">>
        /\ PythonFamilies(d) = {SpecifierRelease(Arg(d, "python_requires"))[1]}

C3_Witness ==
  /\ Len(registered) = 1
  /\ LicenseClassifiers(registered[1]) # {}
  /\ PythonFamilies(registered[1]) = {3}

\* C4, as claimed: whatever the working directory, an error of the run comes
\* from the packaging tool (its import, find_packages() or setup()) and from no
\* expression of setup.py itself.
C4_NoOwnErrors ==
  error # NoError => error.site \in {"import", "find_packages", "setup"}

\* C4, amended: an error of the run comes from the packaging tool or from the
\* expression open("README.md", encoding="utf-8").read() of line 11; open()
\* raises exactly for a README.md that is missing or unreadable, read() exactly
\* for one that is not UTF-8, and with a README.md that opens and decodes no
\* expression of setup.py raises.
C4_OwnErrorsOnlyFromReadme ==
  /\ error # NoError =>
       /\ error.site \in {"import", "setup", "open", "read"}
       /\ error.site = "import" => ~installed /\ error.line = 1
       /\ error.site = "open" =>
            /\ error.line = 11
            /\ fs.readme.kind \in {"absent", "denied"}
            /\ error.type = (IF fs.readme.kind = "absent"
                               THEN "FileNotFoundError" ELSE "PermissionError")
       /\ error.site = "read" =>
            /\ error.line = 11
            /\ error.type = "UnicodeDecodeError"
            /\ fs.readme.kind = "file" /\ ~ReadmeDecodes
  /\ (installed /\ ~ReadmeDecodes) => pc \notin {"content_type", "url", "classifiers",
                                                 "python_requires", "call", "commands", "done"}

C4_Witness ==
  /\ error # NoError
  /\ error.type = "UnicodeDecodeError"
  /\ fs.readme.kind = "file"

\* C5: a step of the script's own code changes neither the files of the working
\* directory nor the command line (only the commands setup() runs write), and
\* all the script itself accesses is README.md, opened for reading and read:
\* no environment variable, no command line, no file written.
C5_OwnAccessesReadOnly ==
  OwnAccesses \subseteq {Did("script", "open_r", README), Did("script", "read", README)}

C5_FrameOfOwnSteps ==
  /\ []C5_OwnAccessesReadOnly
  /\ [][pc # "commands" => fs' = fs /\ argv' = argv]_vars

C5_Witness ==
  /\ pc = "done"
  /\ Did("script", "read", README) \in log
  /\ Did("setuptools", "write", "dist") \in log

\* C6, as claimed: the script acquires no resource, so none is held when the
\* run has ended.
C6_NoResource ==
  /\ handles = {}
  /\ pc \in {"done", "error"} => \A h \in handles : h.state # "open"

\* C6, amended: the script starts no thread, process or callback; it acquires
\* one resource, a handle on README.md opened for reading, holds it while it
\* reads, and never closes it itself: the handle is closed only when the
\* runtime finalises the file object, which may be after setup() has run.
C6_OneUnmanagedHandle ==
  /\ Cardinality(handles) <= 1
  /\ \A h \in handles : h.path = README /\ h.mode = "r"
  /\ \A h \in handles : h.held => h.state = "open" /\ pc = "read"
  /\ \A h \in handles : h.state = "closed" => Did("python", "close", README) \in log
  /\ pc = "read" => \E h \in handles : h.held
  /\ \A a \in OwnAccesses : a.op \notin {"close", "spawn", "register"}

C6_Witness ==
  /\ pc = "done"
  /\ \E h \in handles : h.state = "open" /\ ~h.held

\* C7: the packages the script passes are the directories of the working
\* directory, as it is when the script runs, that hold an __init__.py and whose
\* parents all do; in a working directory without any, as the repository is,
\* the set is empty and no module is shipped.
C7_PackagesDiscovered ==
  "packages" \in Keys(kwargs) =>
    /\ \A d \in Dirs :
         d \in Arg(kwargs, "packages") <=>
           \A k \in 1..Len(d) : SubSeq(d, 1, k) \in fs.inits
    /\ Arg(kwargs, "packages") \subseteq Dirs
    /\ fs.inits = {} => Arg(kwargs, "packages") = {}

C7_Witness ==
  /\ "packages" \in Keys(kwargs)
  /\ fs.inits = {}
  /\ fs.readme = NoFile
  /\ Arg(kwargs, "packages") = {}

\* C8: setup() is entered only after README.md was opened and read to its end
\* and decoded; with a README.md that is missing or is not UTF-8 the run ends
\* in an error of line 11 with setup() never entered: nothing is registered,
\* nothing built, and the script never gets past the read.
C8_ReadBeforeSetup ==
  /\ (pc \in {"call", "commands", "done"} \/ registered # <<>> \/ fs.built # {}) =>
       /\ {Did("script", "open_r", README), Did("script", "read", README)} \subseteq log
       /\ Count(kwargs, "long_description") = 1
       /\ ReadmeDecodes
  /\ (fs.readme.kind = "absent" \/ (fs.readme.kind = "file" /\ ~ReadmeDecodes)) =>
       /\ registered = <<>>
       /\ fs.built = {}
       /\ Did("setuptools", "read", "sys.argv") \notin log
       /\ pc \in {"import", "name", "version", "packages", "install_requires", "author",
                  "author_email", "description", "open", "read", "error"}
       /\ pc = "error" /\ installed => error.line = 11

C8_Witness ==
  /\ pc = "error"
  /\ error.type = "FileNotFoundError"
  /\ registered = <<>>

\* C9, as claimed: the long description setup() is given is the content of
\* README.md decoded as UTF-8 and not changed otherwise, of type text/markdown.
C9_ExactContent ==
  \A i \in 1..Len(registered) :
    /\ Arg(registered[i], "long_description") = Utf8Decode(fs.readme.bytes).text
    /\ Arg(registered[i], "long_description_content_type") = "text/markdown"

\* C9, amended: the long description setup() is given is the whole content of
\* README.md decoded as UTF-8 with every "\r\n" and every other "\r" read as
\* "\n" and not changed otherwise, of type text/markdown; the description
\* keyword has no part in it.
C9_ContentWithNewlinesTranslated ==
  \A i \in 1..Len(registered) :
    /\ Arg(registered[i], "long_description")
         = UniversalNewlines(Utf8Decode(fs.readme.bytes).text)
    /\ Count(registered[i], "long_description") = 1
    /\ Arg(registered[i], "long_description_content_type") = "text/markdown"

C9_Witness ==
  /\ Len(registered) = 1
  /\ \E j \in 1..Len(fs.readme.bytes) : fs.readme.bytes[j] = 13
  /\ \E j \in 1..Len(fs.readme.bytes) : fs.readme.bytes[j] = 195
  /\ Arg(registered[1], "long_description") # Utf8Decode(fs.readme.bytes).text

====
